---------------------------- MODULE Spec2Model ----------------------------
(***************************************************************************)
(* Model of the sampling-and-derivation engine of the macOS performance    *)
(* monitor: MacOSPerformanceMonitor (src/macos_performance_monitor.py) and *)
(* the TUI widgets that read it (src/macos_tui_advanced.py).               *)
(*                                                                         *)
(* Time is counted in ticks of one microsecond, so that the 1e-6 s floor   *)
(* of the elapsed-time denominator is exactly one tick.  Byte counters are *)
(* integers.  A rate is an exact rational [num, den] in lowest terms; the  *)
(* two-decimal values the code returns (round(x, 2)) are integers counting *)
(* hundredths.                                                             *)
(***************************************************************************)
EXTENDS Integers, Sequences, FiniteSets, TLC

(***************************************************************************)
(* Units and program constants.                                            *)
(***************************************************************************)
TicksPerSecond == 1000000
Eps == 1
MiB == 1048576
HalfSecond == TicksPerSecond \div 2
Second == TicksPerSecond

(***************************************************************************)
(* Bounds of the explored environment.                                     *)
(***************************************************************************)
StartSeconds == 10      \* time.time() at construction, in seconds
RateHorizon == 1        \* seconds of clock explored by the rate specification
TempHorizon == 6        \* ... by the temperature specification
ProcHorizon == 6        \* ... by the process specification
TickHorizon == 1        \* ... by the driver specification
TuiHorizon == 1         \* ... by the widget specification
MaxProcs == 2           \* processes alive at once
MaxPushes == 22         \* samples pushed in the history specification
TickPushes == 2         \* samples pushed in the driver specification
MaxBusy == 1            \* pushed samples that differ from the idle sample
MaxWidgetSamples == 1   \* samples kept by the network widget
AbandonHorizon == 2     \* seconds of clock explored by the abandoned-tick specification
OutHorizon == 2         \* ... by the output-file specification
MaxRecords == 3         \* records appended to the --out file
MaxSamples == 3         \* samples appended in the sparkline specification
MaxNetSamples == 2      \* samples kept by the network widget in its sparkline specification
MaxDuration == 2        \* --duration, in seconds
MaxInterval == 2        \* --interval, in seconds
MaxNotices == 4         \* notifications raised in the settings specification
SettingsHorizon == 1    \* seconds of clock explored by the settings specification
ResetHorizon == 1       \* seconds of clock explored by the counter-reset specification

None == [none |-> TRUE]

Abs(x) == IF x < 0 THEN -x ELSE x
Max(a, b) == IF a >= b THEN a ELSE b
Min(a, b) == IF a <= b THEN a ELSE b

RECURSIVE Gcd(_, _)
Gcd(a, b) == IF b = 0 THEN a ELSE Gcd(b, a % b)

(* n / d with d > 0, in lowest terms *)
Rat(n, d) ==
    LET g == Gcd(Abs(n), d)
    IN  [num |-> n \div g, den |-> d \div g]

RatMul(x, y) ==
    LET g1 == Gcd(Abs(x.num), y.den)
        g2 == Gcd(Abs(y.num), x.den)
    IN  Rat((x.num \div g1) * (y.num \div g2), (x.den \div g2) * (y.den \div g1))

(* bytes per tick -> MiB per second: x / (1024**2), with seconds restored *)
ToMiBPerSecond(x) == RatMul(Rat(x.num, MiB), Rat(TicksPerSecond, x.den))

(* round(x, 2), as a count of hundredths; ties go to the even neighbour *)
Round2(x) ==
    LET n  == 100 * x.num
        fl == n \div x.den
        rm == n % x.den
    IN  IF 2 * rm < x.den THEN fl
        ELSE IF 2 * rm > x.den THEN fl + 1
        ELSE IF fl % 2 = 0 THEN fl ELSE fl + 1

VARIABLES
    clock,      \* time.time(), in ticks
    net_io,     \* psutil.net_io_counters()
    disk_io,    \* psutil.disk_io_counters(), None when there is no disk
    procs,      \* the process table, in enumeration order
    monitor,    \* the fields of the MacOSPerformanceMonitor instance
    widgets,    \* NetworkDetailWidget.history_up / history_down
    ret,        \* what the last completed call did and returned
    pushed,     \* every sample appended to each history window so far
    probe_log,  \* the last run of the temperature probe: when, and whether it read a temperature
    disk_io_ts, \* time.time() when the reading kept in monitor._prev_disk_io was taken
    out_file,   \* the text chunks written to the --out file, oldest first
    driver,     \* main's continuous loop: its arguments, end_time and position
    app         \* the TUI: the process widget's settings, the widgets' timers, the theme

vars == <<clock, net_io, disk_io, procs, monitor, widgets, ret, pushed, probe_log,
          disk_io_ts, out_file, driver, app>>

CounterValues == {0, MiB}
NetCounters == [bytes_sent : CounterValues, bytes_recv : CounterValues]
DiskCounters == [read_bytes : CounterValues, write_bytes : CounterValues]

StartTime == StartSeconds * TicksPerSecond

(***************************************************************************)
(* MacOSPerformanceMonitor.get_network_info                                *)
(***************************************************************************)
(* mutant: a clock that stepped back counts as time elapsed *)
ElapsedSince_Abs(now, ts) == Max(Abs(now - ts), Eps)

ElapsedSince(now, ts) == Max(now - ts, Eps)

(* mutant: the delta is reported as if one second had elapsed *)
CounterRate_PerCall(new, prev, dt) == Rat(new - prev, TicksPerSecond)

CounterRate(new, prev, dt) == Rat(new - prev, dt)

(* mutant: a reset of one counter zeroes the rates of both *)
get_network_info_ResetTogether(self, io, now) ==
    LET dt        == ElapsedSince(now, self._prev_sample_ts)
        reset     == \/ io.bytes_sent < self._prev_net_io.bytes_sent
                     \/ io.bytes_recv < self._prev_net_io.bytes_recv
        sent_rate == IF reset THEN Rat(0, 1)
                     ELSE CounterRate(io.bytes_sent, self._prev_net_io.bytes_sent, dt)
        recv_rate == IF reset THEN Rat(0, 1)
                     ELSE CounterRate(io.bytes_recv, self._prev_net_io.bytes_recv, dt)
    IN  [self   |-> [self EXCEPT !._prev_net_io = io, !._prev_sample_ts = now],
         raised |-> FALSE,
         sent_rate |-> sent_rate,
         recv_rate |-> recv_rate,
         result |-> [bytes_sent_mib  |-> Round2(Rat(io.bytes_sent, MiB)),
                     bytes_recv_mib  |-> Round2(Rat(io.bytes_recv, MiB)),
                     send_rate_mib_s |-> Round2(ToMiBPerSecond(sent_rate)),
                     recv_rate_mib_s |-> Round2(ToMiBPerSecond(recv_rate))]]

get_network_info(self, io, now) ==
    LET dt        == ElapsedSince(now, self._prev_sample_ts)
        sent_rate == CounterRate(io.bytes_sent, self._prev_net_io.bytes_sent, dt)
        recv_rate == CounterRate(io.bytes_recv, self._prev_net_io.bytes_recv, dt)
    IN  [self   |-> [self EXCEPT !._prev_net_io = io, !._prev_sample_ts = now],
         raised |-> FALSE,
         sent_rate |-> sent_rate,
         recv_rate |-> recv_rate,
         result |-> [bytes_sent_mib  |-> Round2(Rat(io.bytes_sent, MiB)),
                     bytes_recv_mib  |-> Round2(Rat(io.bytes_recv, MiB)),
                     send_rate_mib_s |-> Round2(ToMiBPerSecond(sent_rate)),
                     recv_rate_mib_s |-> Round2(ToMiBPerSecond(recv_rate))]]

(***************************************************************************)
(* MacOSPerformanceMonitor.get_disk_info (the io_stats part; the partition *)
(* listing reads no engine state).  With no stored baseline the attribute  *)
(* access prev.read_bytes raises AttributeError before any assignment.     *)
(***************************************************************************)
get_disk_info(self, io, now) ==
    IF io = None
    THEN [self |-> self, raised |-> FALSE, rates |-> None,
          result |-> [io_stats |-> None]]
    ELSE LET dt   == ElapsedSince(now, self._prev_sample_ts)
             prev == self._prev_disk_io
         IN  IF prev = None
             THEN [self |-> self, raised |-> TRUE, rates |-> None, result |-> None]
             ELSE LET read_rate  == CounterRate(io.read_bytes, prev.read_bytes, dt)
                      write_rate == CounterRate(io.write_bytes, prev.write_bytes, dt)
                  IN [self   |-> [self EXCEPT !._prev_disk_io = io],
                      raised |-> FALSE,
                      rates  |-> [read |-> read_rate, write |-> write_rate],
                      result |-> [io_stats |->
                          [read_mib  |-> Round2(Rat(io.read_bytes, MiB)),
                           write_mib |-> Round2(Rat(io.write_bytes, MiB)),
                           read_rate_mib_s  |-> Round2(ToMiBPerSecond(read_rate)),
                           write_rate_mib_s |-> Round2(ToMiBPerSecond(write_rate))]]]

(***************************************************************************)
(* MacOSPerformanceMonitor.get_temperature_info.  The privileged probe is  *)
(* the subprocess run; its outcome is an input of the call.                *)
(***************************************************************************)
TempReadings == {42, 55}

ProbeOutcomes ==
    {[kind |-> "ok", temp |-> v] : v \in TempReadings}
        \cup {[kind |-> k, temp |-> 0] :
                k \in {"no_reading", "nonzero_exit", "timeout", "missing_binary"}}

(* the ways the probe fails: exit status # 0, TimeoutExpired, FileNotFoundError *)
FailureKinds == {"nonzero_exit", "timeout", "missing_binary"}

(* mutant: the --temps flag is not looked at *)
TempsDisabled_Ignored(self) == FALSE

(* line 218 *)
TempsDisabled(self) == ~self.enable_temps

(* mutant: the output of a probe that exited with a non-zero status is parsed *)
ReturnedZero_AnyExit(outcome) ==
    outcome.kind \in {"ok", "no_reading", "nonzero_exit"}

(* line 229: result.returncode == 0 *)
ReturnedZero(outcome) == outcome.kind \in {"ok", "no_reading"}

(* mutant: a stored reading is served whatever its age *)
CacheValid_AnyAge(self, now) == self._last_temp # None

(* mutant: a reading exactly temp_refresh_seconds old is still served *)
CacheValid_Inclusive(self, now) ==
    /\ now - self._last_temp_ts <= self.temp_refresh_seconds * TicksPerSecond
    /\ self._last_temp # None

(* line 221: the cached reading is served *)
CacheValid(self, now) ==
    /\ now - self._last_temp_ts < self.temp_refresh_seconds * TicksPerSecond
    /\ self._last_temp # None

(* lines 230-239: returncode 0, the temps dict parsed from stdout *)
ParsedTemps(outcome) ==
    IF outcome.kind = "ok" THEN [cpu_temp_c |-> outcome.temp] ELSE None

get_temperature_info(self, outcome, now) ==
    IF TempsDisabled(self)
    THEN [self |-> self, raised |-> FALSE, probed |-> FALSE, result |-> None]
    ELSE IF CacheValid(self, now)
    THEN [self |-> self, raised |-> FALSE, probed |-> FALSE,
          result |-> self._last_temp]
    ELSE IF ReturnedZero(outcome)
    THEN [self   |-> [self EXCEPT !._last_temp = ParsedTemps(outcome),
                                  !._last_temp_ts = now],
          raised |-> FALSE, probed |-> TRUE,
          result |-> ParsedTemps(outcome)]
    ELSE [self |-> self, raised |-> FALSE, probed |-> TRUE, result |-> None]

(***************************************************************************)
(* MacOSPerformanceMonitor.get_top_processes.  The process table is a      *)
(* sequence of records in enumeration order.  A process whose CPU          *)
(* accounting has no baseline yet (primed = FALSE) reads 0.0; every pass   *)
(* over the table leaves a baseline behind.                                *)
(***************************************************************************)
PrimeInterval == 5
PrimeSleep == TicksPerSecond \div 5

(* mutant: a call exactly 5 s after the last priming pass primes again *)
NeedsPriming_Inclusive(self, sort_by, now) ==
    /\ sort_by = "cpu"
    /\ now - self._proc_prime_ts >= PrimeInterval * TicksPerSecond

NeedsPriming(self, sort_by, now) ==
    /\ sort_by = "cpu"
    /\ now - self._proc_prime_ts > PrimeInterval * TicksPerSecond

PrimeAll(table) == [i \in 1..Len(table) |-> [table[i] EXCEPT !.primed = TRUE]]

ReadProcess(p) ==
    [pid |-> p.pid,
     cpu_percent |-> IF p.primed THEN p.cpu_percent ELSE 0,
     memory_percent |-> p.memory_percent]

ReadTable(table) == [i \in 1..Len(table) |-> ReadProcess(table[i])]

SortKey(sort_by) ==
    IF sort_by \notin {"cpu", "memory"} THEN "cpu" ELSE sort_by

KeyOf(rec, key) == IF key = "cpu" THEN rec.cpu_percent ELSE rec.memory_percent

(* mutant: rec goes in front of the elements whose key equals its own *)
InsertDesc_BeforeTies(sorted, rec, key) ==
    SelectSeq(sorted, LAMBDA q : KeyOf(q, key) > KeyOf(rec, key))
       \o <<rec>>
       \o SelectSeq(sorted, LAMBDA q : KeyOf(q, key) <= KeyOf(rec, key))

(* insert rec behind every element whose key is >= its own: stable, descending *)
RECURSIVE InsertDesc(_, _, _)
InsertDesc(sorted, rec, key) ==
    IF sorted = <<>> THEN <<rec>>
    ELSE IF KeyOf(Head(sorted), key) >= KeyOf(rec, key)
         THEN <<Head(sorted)>> \o InsertDesc(Tail(sorted), rec, key)
         ELSE <<rec>> \o sorted

RECURSIVE SortDesc(_, _)
SortDesc(s, key) ==
    IF s = <<>> THEN <<>>
    ELSE InsertDesc(SortDesc(SubSeq(s, 1, Len(s) - 1), key), s[Len(s)], key)

(* mutant: one record too many *)
SliceTo_OneMore(s, num) ==
    IF num >= 0 THEN SubSeq(s, 1, Min(num + 1, Len(s)))
    ELSE SubSeq(s, 1, Max(Len(s) + num, 0))

(* processes[:num] *)
SliceTo(s, num) ==
    IF num >= 0 THEN SubSeq(s, 1, Min(num, Len(s)))
    ELSE SubSeq(s, 1, Max(Len(s) + num, 0))

get_top_processes(self, table, num, sort_by, now) ==
    LET prime  == NeedsPriming(self, sort_by, now)
        primed == IF prime THEN PrimeAll(table) ELSE table
    IN  [self   |-> IF prime THEN [self EXCEPT !._proc_prime_ts = now] ELSE self,
         raised |-> FALSE,
         primed_pass |-> prime,
         slept  |-> IF prime THEN PrimeSleep ELSE 0,
         table  |-> PrimeAll(table),
         result |-> SliceTo(SortDesc(ReadTable(primed), SortKey(sort_by)), num)]

(***************************************************************************)
(* Python float arithmetic of _create_sparkline: IEEE-754 binary64 with    *)
(* round-to-nearest-even.  A positive double is mant * 2^(exp - 52), its   *)
(* 53-bit significand mant held in three limbs <<high, middle, low>> of    *)
(* 17, 18 and 18 bits.                                                     *)
(***************************************************************************)
Limb == 2^18

(* the exponent e with 2^e <= a / b < 2^(e + 1), for integers a, b >= 1 *)
RECURSIVE Exponent(_, _)
Exponent(a, b) ==
    IF a >= 2 * b THEN Exponent(a, 2 * b) + 1
    ELSE IF a < b THEN Exponent(2 * a, b) - 1
    ELSE 0

(* add one unit in the last place; the low limb counts modulo lowmod *)
RoundUp(mant, lowmod) ==
    IF mant[3] + 1 < lowmod THEN <<mant[1], mant[2], mant[3] + 1>>
    ELSE IF mant[2] + 1 < Limb THEN <<mant[1], mant[2] + 1, 0>>
    ELSE <<mant[1] + 1, 0, 0>>

(* a / b for integers a, b >= 1: the quotient's first 53 bits by long
   division, rounded on the remainder *)
float_truediv(a, b) ==
    LET e  == Exponent(a, b)
        n  == IF e < 0 THEN a * 2^(-e) ELSE a
        d  == IF e > 0 THEN b * 2^e ELSE b
        m2 == (n * 2^16) \div d
        r2 == (n * 2^16) % d
        m1 == (r2 * Limb) \div d
        r1 == (r2 * Limb) % d
        m0 == (r1 * Limb) \div d
        r0 == (r1 * Limb) % d
        up == 2 * r0 > d \/ (2 * r0 = d /\ m0 % 2 = 1)
    IN  [exp  |-> e,
         mant |-> IF up THEN RoundUp(<<m2, m1, m0>>, Limb) ELSE <<m2, m1, m0>>]

RECURSIVE BitLength(_)
BitLength(n) == IF n = 0 THEN 0 ELSE 1 + BitLength(n \div 2)

(* i * x for an integer 0 <= i < 2^7 and a double x: the exact product,
   rounded to 53 bits when it has more *)
float_mul(i, x) ==
    LET v0  == x.mant[3] * i
        v1  == x.mant[2] * i + v0 \div Limb
        p2  == x.mant[1] * i + v1 \div Limb
        p1  == v1 % Limb
        p0  == v0 % Limb
        s   == Max(BitLength(p2) - 17, 0)
        low == p0 % 2^s
        q0  == p0 \div 2^s
        up  == s > 0 /\ (2 * low > 2^s \/ (2 * low = 2^s /\ q0 % 2 = 1))
    IN  [exp  |-> x.exp,
         drop |-> s,
         mant |-> IF up THEN RoundUp(<<p2, p1, q0>>, Limb \div 2^s)
                  ELSE <<p2, p1, q0>>]

(* mutant: int() rounds up *)
float_int_Ceil(x) ==
    x.mant[1] \div 2^(16 - x.exp)
      + IF x.mant[1] % 2^(16 - x.exp) # 0 \/ x.mant[2] # 0 \/ x.mant[3] # 0
        THEN 1 ELSE 0

(* int(x) for a double x >= 0 with exp <= 16: the high limb weighs
   2^(exp - 16), the other limbs are below one unit of it *)
float_int(x) == x.mant[1] \div 2^(16 - x.exp)

(***************************************************************************)
(* MacOSPerformanceMonitor._create_sparkline.  A glyph is named by its     *)
(* place in bars, the flat glyph by "flat"; samples are integers.          *)
(***************************************************************************)
bars == <<"bar1", "bar2", "bar3", "bar4", "bar5", "bar6", "bar7", "bar8">>
FlatGlyph == "flat"

SeqMin(s) == CHOOSE v \in {s[k] : k \in 1..Len(s)} : \A k \in 1..Len(s) : v <= s[k]
SeqMax(s) == CHOOSE v \in {s[k] : k \in 1..Len(s)} : \A k \in 1..Len(s) : v >= s[k]

(* int(normalized * len(bars)) for integer samples: the quotient
   (v - min_val) / range_val is rounded by less than the distance of
   8 * (v - min_val) / range_val from the next integer *)
BarIndex(v, min_val, range_val) ==
    Min((Len(bars) * (v - min_val)) \div range_val, Len(bars) - 1)

_create_sparkline(data, width) ==
    IF Len(data) < 2 THEN [i \in 1..width |-> FlatGlyph]
    ELSE LET min_val   == SeqMin(data)
             max_val   == SeqMax(data)
             range_val == IF max_val > min_val THEN max_val - min_val ELSE 1
             step      == float_truediv(Len(data), width)
         IN  [i \in 1..width |->
                LET idx == float_int(float_mul(i - 1, step))
                IN  IF idx < Len(data)
                    THEN bars[BarIndex(data[idx + 1], min_val, range_val) + 1]
                    ELSE FlatGlyph]

(***************************************************************************)
(* deque(maxlen = n).append(v)                                             *)
(***************************************************************************)
(* mutant: a full window refuses the new sample *)
deque_append_KeepOldest(d, v, maxlen) ==
    IF Len(d) >= maxlen THEN d ELSE Append(d, v)

deque_append(d, v, maxlen) ==
    IF Len(d) >= maxlen THEN Append(Tail(d), v) ELSE Append(d, v)

(* mutant: a tick without traffic pushes no network sample *)
UpdateHistory_NetworkWhenBusy(self, cpu, mem, net) ==
    [self EXCEPT
        !.cpu_history = deque_append(@, cpu, self.history_size),
        !.memory_history = deque_append(@, mem, self.history_size),
        !.network_history =
            IF net.send_rate_mib_s + net.recv_rate_mib_s = 0 THEN @
            ELSE deque_append(@, net.send_rate_mib_s + net.recv_rate_mib_s,
                              self.history_size)]

(* lines 313-315 *)
UpdateHistory(self, cpu, mem, net) ==
    [self EXCEPT
        !.cpu_history = deque_append(@, cpu, self.history_size),
        !.memory_history = deque_append(@, mem, self.history_size),
        !.network_history =
            deque_append(@, net.send_rate_mib_s + net.recv_rate_mib_s,
                         self.history_size)]

(***************************************************************************)
(* One tick.  env holds what the operating system answers during the tick: *)
(* the counters, the CPU and memory gauges, the probe outcome and the      *)
(* process table.  An exception of a step ends the tick where it stands.   *)
(***************************************************************************)
Aborted(self, env) ==
    [self |-> self, raised |-> TRUE, table |-> env.table, slept |-> 0,
     probed |-> FALSE, pushes |-> <<>>]

print_performance_report(self, env, show_processes, top_n, sort_by, now) ==
    LET disk == get_disk_info(self, env.disk, now)
    IN  IF disk.raised THEN Aborted(self, env)
        ELSE
        LET net  == get_network_info(disk.self, env.net, now)
            temp == get_temperature_info(net.self, env.outcome, now)
            hist == UpdateHistory(temp.self, env.cpu, env.mem, net.result)
            top  == IF show_processes
                    THEN get_top_processes(hist, env.table, top_n, sort_by, now)
                    ELSE [self |-> hist, table |-> env.table, slept |-> 0,
                          result |-> <<>>]
        IN  [self |-> top.self, raised |-> FALSE, table |-> top.table,
             slept |-> top.slept, probed |-> temp.probed,
             pushes |-> <<[cpu |-> env.cpu, mem |-> env.mem,
                           net |-> net.result.send_rate_mib_s
                                     + net.result.recv_rate_mib_s]>>,
             cpu |-> env.cpu, mem |-> env.mem,
             disk |-> disk.result, net |-> net.result,
             temperature |-> temp.result, top_processes |-> top.result]

get_json_report(self, env, include_processes, top_n, sort_by, now) ==
    LET disk == get_disk_info(self, env.disk, now)
    IN  IF disk.raised THEN Aborted(self, env)
        ELSE
        LET net  == get_network_info(disk.self, env.net, now)
            temp == get_temperature_info(net.self, env.outcome, now)
            top  == IF include_processes
                    THEN get_top_processes(temp.self, env.table, top_n, sort_by, now)
                    ELSE [self |-> temp.self, table |-> env.table, slept |-> 0,
                          result |-> <<>>]
        IN  [self |-> top.self, raised |-> FALSE, table |-> top.table,
             slept |-> top.slept, probed |-> temp.probed, pushes |-> <<>>,
             cpu |-> env.cpu, mem |-> env.mem,
             disk |-> disk.result, net |-> net.result,
             temperature |-> temp.result, top_processes |-> top.result]

(* lines 307-308 of a tick that an exception ends: after get_disk_info
   (last = "disk") or after get_network_info (last = "net"), in both cases
   before the history update of lines 313-315 *)
AbandonPoints == {"disk", "net"}

abandoned_tick(self, env, last, now) ==
    LET disk == get_disk_info(self, env.disk, now)
    IN  IF disk.raised \/ last = "disk"
        THEN [self |-> disk.self, raised |-> TRUE, disk |-> disk]
        ELSE [self |-> get_network_info(disk.self, env.net, now).self,
              raised |-> TRUE, disk |-> disk]

(***************************************************************************)
(* MacOSPerformanceMonitor.__init__                                        *)
(***************************************************************************)
HistorySize == 20
TempRefreshSeconds == 5

NewMonitor(net, disk, now) ==
    [_prev_net_io |-> net,
     _prev_disk_io |-> disk,
     _prev_sample_ts |-> now,
     _last_temp |-> None,
     _last_temp_ts |-> 0,
     enable_temps |-> FALSE,
     temp_refresh_seconds |-> TempRefreshSeconds,
     _proc_prime_ts |-> 0,
     history_size |-> HistorySize,
     cpu_history |-> <<>>,
     memory_history |-> <<>>,
     network_history |-> <<>>]

(* main, lines 561-562: construction, then the --temps flag *)
(* main has not entered its continuous loop *)
NotStarted == [pc |-> "not_started"]

(* MacOSMonitorAdvancedTUI after compose and on_mount: ProcessTableDetailWidget's
   num_processes and sort_by, the interval of each widget's timer in
   tenths of a second, the theme, the notifications shown so far *)
Mounted ==
    [num_processes |-> 20,
     sort_by       |-> "cpu",
     intervals     |-> [cpu |-> 10, memory |-> 20, network |-> 10,
                        processes |-> 20, overview |-> 10],
     dark          |-> TRUE,
     screen        |-> "main",
     notified      |-> 0]

Constructed(net, disk, table, temps) ==
    /\ clock = StartTime
    /\ net_io = net
    /\ disk_io = disk
    /\ procs = table
    /\ monitor = [NewMonitor(net, disk, StartTime) EXCEPT !.enable_temps = temps]
    /\ widgets = [history_up |-> <<>>, history_down |-> <<>>]
    /\ ret = [op |-> "__init__"]
    /\ pushed = [cpu |-> <<>>, mem |-> <<>>, net |-> <<>>]
    /\ probe_log = None
    /\ disk_io_ts = StartTime
    /\ out_file = <<>>
    /\ driver = NotStarted
    /\ app = Mounted

(***************************************************************************)
(* The environment: the clock, the counters, the process table.            *)
(***************************************************************************)
AdvanceClock(steps, horizon) ==
    /\ \E d \in steps :
          /\ clock + d >= StartTime
          /\ clock + d <= StartTime + horizon * Second
          /\ clock' = clock + d
    /\ UNCHANGED <<net_io, disk_io, procs, monitor, widgets, ret, pushed, probe_log,
                   disk_io_ts, out_file, driver, app>>

(* counters grow, or fall back after a reset *)
NetTraffic ==
    /\ \E c \in NetCounters \ {net_io} : net_io' = c
    /\ UNCHANGED <<clock, disk_io, procs, monitor, widgets, ret, pushed, probe_log,
                   disk_io_ts, out_file, driver, app>>

(* bytes are sent: the counter grows *)
Upload ==
    /\ \E c \in CounterValues :
          /\ c > net_io.bytes_sent
          /\ net_io' = [net_io EXCEPT !.bytes_sent = c]
    /\ UNCHANGED <<clock, disk_io, procs, monitor, widgets, ret, pushed, probe_log,
                   disk_io_ts, out_file, driver, app>>

DiskTraffic ==
    /\ \E c \in (DiskCounters \cup {None}) \ {disk_io} : disk_io' = c
    /\ UNCHANGED <<clock, net_io, procs, monitor, widgets, ret, pushed, probe_log,
                   disk_io_ts, out_file, driver, app>>

(* disk counters grow, or fall back after a reset; the disk stays readable *)
DiskCounterTraffic ==
    /\ disk_io # None
    /\ \E c \in DiskCounters \ {disk_io} : disk_io' = c
    /\ UNCHANGED <<clock, net_io, procs, monitor, widgets, ret, pushed, probe_log,
                   disk_io_ts, out_file, driver, app>>

(* a disk that could not be read at construction becomes readable *)
DiskAppears ==
    /\ disk_io = None
    /\ disk_io' = [read_bytes |-> 0, write_bytes |-> 0]
    /\ UNCHANGED <<clock, net_io, procs, monitor, widgets, ret, pushed, probe_log,
                   disk_io_ts, out_file, driver, app>>

(* bytes are written to disk: the counter grows *)
DiskWrite ==
    /\ disk_io # None
    /\ \E c \in CounterValues :
          /\ c > disk_io.write_bytes
          /\ disk_io' = [disk_io EXCEPT !.write_bytes = c]
    /\ UNCHANGED <<clock, net_io, procs, monitor, widgets, ret, pushed, probe_log,
                   disk_io_ts, out_file, driver, app>>

(* a pause that puts the next call exactly 5 s after a priming call began *)
ProcPause == PrimeInterval * Second - PrimeSleep
CpuLoads == {0, 50}
MemLoads == {10, 20}
Pids(table) == {table[i].pid : i \in 1..Len(table)}

(* the caller has used the previous call's return value by the time the
   process table changes or the caller waits *)
Consumed == [op |-> "consumed"]

(* a new process, enumerated behind the smaller pids, with no CPU baseline *)
ProcSpawn ==
    /\ \E pid \in (1..MaxProcs) \ Pids(procs), c \in CpuLoads, m \in MemLoads :
          LET below == SelectSeq(procs, LAMBDA q : q.pid < pid)
              above == SelectSeq(procs, LAMBDA q : q.pid > pid)
          IN  procs' = below \o <<[pid |-> pid, cpu_percent |-> c,
                                   memory_percent |-> m, primed |-> FALSE]>>
                             \o above
    /\ ret' = Consumed
    /\ UNCHANGED <<clock, net_io, disk_io, monitor, widgets, pushed, probe_log,
                   disk_io_ts, out_file, driver, app>>

ProcExit ==
    /\ \E pid \in Pids(procs) : procs' = SelectSeq(procs, LAMBDA q : q.pid # pid)
    /\ ret' = Consumed
    /\ UNCHANGED <<clock, net_io, disk_io, monitor, widgets, pushed, probe_log,
                   disk_io_ts, out_file, driver, app>>

ProcLoad ==
    /\ \E i \in 1..Len(procs), c \in CpuLoads :
          /\ c # procs[i].cpu_percent
          /\ procs' = [procs EXCEPT ![i].cpu_percent = c]
    /\ ret' = Consumed
    /\ UNCHANGED <<clock, net_io, disk_io, monitor, widgets, pushed, probe_log,
                   disk_io_ts, out_file, driver, app>>

(* the caller waits between two calls *)
ProcWait ==
    /\ clock < StartTime + ProcHorizon * Second
    /\ clock' = clock + ProcPause
    /\ ret' = Consumed
    /\ UNCHANGED <<net_io, disk_io, procs, monitor, widgets, pushed, probe_log,
                   disk_io_ts, out_file, driver, app>>

(***************************************************************************)
(* Calls of the monitor's accessors.                                       *)
(***************************************************************************)
NetObs(op, r) ==
    [op |-> op, raised |-> FALSE,
     sent_rate |-> r.sent_rate, recv_rate |-> r.recv_rate, result |-> r.result]

CallGetNetworkInfo ==
    LET r == get_network_info(monitor, net_io, clock)
    IN  /\ monitor' = r.self
        /\ ret' = NetObs("get_network_info", r)
        /\ UNCHANGED <<clock, net_io, disk_io, procs, widgets, pushed, probe_log,
                       disk_io_ts, out_file, driver, app>>

(* line 181: the stored disk reading is replaced, at time now *)
DiskSampledAt(r, io, now, ts) == IF io # None /\ ~r.raised THEN now ELSE ts

CallGetDiskInfo ==
    LET r == get_disk_info(monitor, disk_io, clock)
    IN  /\ monitor' = r.self
        /\ ret' = [op |-> "get_disk_info", raised |-> r.raised,
                   rates |-> r.rates, result |-> r.result]
        /\ disk_io_ts' = DiskSampledAt(r, disk_io, clock, disk_io_ts)
        /\ UNCHANGED <<clock, net_io, disk_io, procs, widgets, pushed, probe_log,
                       out_file, driver, app>>

(* the probe is only run, and its outcome only matters, past lines 218-222 *)
ProbeOutcomesFor(self, now) ==
    IF self.enable_temps /\ ~CacheValid(self, now)
    THEN ProbeOutcomes
    ELSE {[kind |-> "timeout", temp |-> 0]}

ProbeLog(r, outcome, now, log) ==
    IF r.probed THEN [at |-> now, ok |-> outcome.kind = "ok"] ELSE log

GetTemperatureInfo(outcome) ==
    LET r == get_temperature_info(monitor, outcome, clock)
    IN  /\ monitor' = r.self
        /\ probe_log' = ProbeLog(r, outcome, clock, probe_log)
        /\ ret' = [op |-> "get_temperature_info", raised |-> r.raised,
                   probed |-> r.probed, result |-> r.result]
        /\ UNCHANGED <<clock, net_io, disk_io, procs, widgets, pushed,
                       disk_io_ts, out_file, driver, app>>

CallGetTemperatureInfo ==
    \E outcome \in ProbeOutcomesFor(monitor, clock) : GetTemperatureInfo(outcome)

(* main, line 562: the caller sets the public flag *)
SetEnableTemps ==
    /\ monitor' = [monitor EXCEPT !.enable_temps = ~@]
    /\ UNCHANGED <<clock, net_io, disk_io, procs, widgets, ret, pushed, probe_log,
                   disk_io_ts, out_file, driver, app>>

SortKeys == {"cpu", "memory", "name"}
NumChoices == -1 .. MaxProcs

GetTopProcesses(num, sort_by) ==
    LET r == get_top_processes(monitor, procs, num, sort_by, clock)
    IN  /\ monitor' = r.self
        /\ procs' = r.table
        /\ clock' = clock + r.slept
        /\ ret' = [op |-> "get_top_processes", raised |-> r.raised,
                   primed_pass |-> r.primed_pass, result |-> r.result]
        /\ UNCHANGED <<net_io, disk_io, widgets, pushed, probe_log,
                       disk_io_ts, out_file, driver, app>>

CallGetTopProcesses ==
    \E num \in NumChoices, sort_by \in SortKeys : GetTopProcesses(num, sort_by)

(***************************************************************************)
(* The drivers' ticks (main, lines 565-633).                               *)
(***************************************************************************)
IdleSample == [cpu |-> 10, mem |-> 30, net |-> 0]
CpuReadings == {IdleSample.cpu, 90}
MemReadings == {IdleSample.mem, 60}
DefaultTop == 10
TickSortKeys == {"cpu", "memory"}

Logged(log, pushes) ==
    IF pushes = <<>> THEN log
    ELSE [cpu |-> Append(log.cpu, pushes[1].cpu),
          mem |-> Append(log.mem, pushes[1].mem),
          net |-> Append(log.net, pushes[1].net)]

BusyCount(log) ==
    Cardinality({i \in 1..Len(log.cpu) :
        [cpu |-> log.cpu[i], mem |-> log.mem[i], net |-> log.net[i]] # IdleSample})

TickObs(op, r) == [op |-> op, raised |-> r.raised]

TickEnv(cpu, mem, outcome) ==
    [net |-> net_io, disk |-> disk_io, cpu |-> cpu, mem |-> mem,
     outcome |-> outcome, table |-> procs]

PrintReport(limit, shows) ==
    \E cpu \in CpuReadings, mem \in MemReadings,
       outcome \in ProbeOutcomesFor(monitor, clock),
       show \in shows, sort_by \in TickSortKeys :
        \E r \in {print_performance_report(monitor, TickEnv(cpu, mem, outcome),
                                          show, DefaultTop, sort_by, clock)} :
        \E log \in {Logged(pushed, r.pushes)} :
            /\ Len(log.cpu) <= limit
            /\ BusyCount(log) <= MaxBusy
            /\ monitor' = r.self
            /\ procs' = r.table
            /\ clock' = clock + r.slept
            /\ pushed' = log
            /\ probe_log' = ProbeLog(r, outcome, clock, probe_log)
            /\ ret' = TickObs("print_performance_report", r)
            /\ disk_io_ts' = DiskSampledAt(r, disk_io, clock, disk_io_ts)
            /\ UNCHANGED <<net_io, disk_io, widgets, out_file, driver, app>>

(* --processes is given or not *)
PrintTick(limit) == PrintReport(limit, BOOLEAN)

JsonTick ==
    \E cpu \in CpuReadings, mem \in MemReadings,
       outcome \in ProbeOutcomesFor(monitor, clock),
       include \in BOOLEAN, sort_by \in TickSortKeys :
        \E r \in {get_json_report(monitor, TickEnv(cpu, mem, outcome),
                                 include, DefaultTop, sort_by, clock)} :
            /\ monitor' = r.self
            /\ procs' = r.table
            /\ clock' = clock + r.slept
            /\ pushed' = Logged(pushed, r.pushes)
            /\ probe_log' = ProbeLog(r, outcome, clock, probe_log)
            /\ ret' = TickObs("get_json_report", r)
            /\ disk_io_ts' = DiskSampledAt(r, disk_io, clock, disk_io_ts)
            /\ UNCHANGED <<net_io, disk_io, widgets, out_file, driver, app>>

(***************************************************************************)
(* main with --json and --out FILE.  A record is the text json.dumps makes *)
(* of the payload (one line with --ndjson, indented by 2 without) and the  *)
(* newline written behind it.                                              *)
(***************************************************************************)
json_dumps(payload, ndjson, now) ==
    [timestamp |-> now,
     indent    |-> IF ndjson THEN 0 ELSE 2,
     cpu       |-> payload.cpu,
     memory    |-> payload.mem,
     network   |-> payload.net]

(* mutant: every run appends *)
OpenMode_AlwaysAppend(continuous) == "a"

(* lines 579 and 585: open(args.out, 'a'); lines 614 and 620: open(args.out, 'w') *)
OpenMode(continuous) == IF continuous THEN "a" ELSE "w"

(* with open(path, mode) as f: f.write(text + '\n') *)
file_write(contents, mode, text) ==
    IF mode = "a" THEN Append(contents, text) ELSE <<text>>

JsonEnv == TickEnv(IdleSample.cpu, IdleSample.mem, [kind |-> "timeout", temp |-> 0])

(* one tick of the continuous branch, run with --no-processes *)
ContinuousJsonTick(ndjson) ==
    \E r \in {get_json_report(monitor, JsonEnv, FALSE, DefaultTop, "cpu", clock)} :
        /\ Len(out_file) < MaxRecords
        /\ monitor' = r.self
        /\ disk_io_ts' = DiskSampledAt(r, disk_io, clock, disk_io_ts)
        /\ out_file' = IF r.raised THEN out_file
                       ELSE file_write(out_file, OpenMode(TRUE),
                                       json_dumps(r, ndjson, clock))
        /\ ret' = TickObs("get_json_report", r)
        /\ UNCHANGED <<clock, net_io, disk_io, procs, widgets, pushed, probe_log,
                       driver, app>>

(* a whole run of the one-shot branch, by a process of its own: it
   constructs its monitor, reports once, writes and exits *)
OneShotJson(ndjson) ==
    \E r \in {get_json_report(NewMonitor(net_io, disk_io, clock), JsonEnv,
                               FALSE, DefaultTop, "cpu", clock)} :
        /\ out_file' = IF r.raised THEN out_file
                       ELSE file_write(out_file, OpenMode(FALSE),
                                       json_dumps(r, ndjson, clock))
        /\ ret' = TickObs("main", r)
        /\ UNCHANGED <<clock, net_io, disk_io, procs, monitor, widgets, pushed,
                       probe_log, disk_io_ts, driver, app>>

AbandonedTick ==
    \E last \in AbandonPoints :
        \E r \in {abandoned_tick(monitor, TickEnv(IdleSample.cpu, IdleSample.mem,
                                                  [kind |-> "timeout", temp |-> 0]),
                                  last, clock)} :
            /\ monitor' = r.self
            /\ disk_io_ts' = DiskSampledAt(r.disk, disk_io, clock, disk_io_ts)
            /\ ret' = TickObs("abandoned_tick", r)
            /\ UNCHANGED <<clock, net_io, disk_io, procs, widgets, pushed, probe_log,
                           out_file, driver, app>>

(***************************************************************************)
(* main's continuous loop (lines 565-602), run with --json and              *)
(* --no-processes.  args.duration is None or [seconds |-> d]; end_time is  *)
(* None or [at |-> t].                                                     *)
(***************************************************************************)
Durations == {None} \cup {[seconds |-> d] : d \in 0..MaxDuration}
Intervals == 1..MaxInterval

(* time.sleep(n) returns after n seconds or a little later *)
SleepOverrun == {0, HalfSecond}

(* the loop of a run without a deadline is followed up to this time *)
MainHorizon == MaxDuration + MaxInterval + 1

(* line 566: end_time = time.time() + args.duration if args.duration else None *)
EndTime(duration, now) ==
    IF duration # None /\ duration.seconds # 0
    THEN [at |-> now + duration.seconds * Second]
    ELSE None

(* mutant: the loop goes on when the clock is exactly at end_time *)
LoopEnds_Strict(end_time, now) == end_time # None /\ now > end_time.at

(* line 600: end_time and time.time() >= end_time *)
LoopEnds(end_time, now) == end_time # None /\ now >= end_time.at

MainContinuous(duration, interval) ==
    /\ driver.pc = "not_started"
    /\ driver' = [pc |-> "tick", duration |-> duration, interval |-> interval,
                  start |-> clock, end_time |-> EndTime(duration, clock),
                  ticks |-> 0]
    /\ UNCHANGED <<clock, net_io, disk_io, procs, monitor, widgets, ret, pushed,
                   probe_log, disk_io_ts, out_file, app>>

(* lines 568-588: one report; an exception other than KeyboardInterrupt
   leaves main *)
LoopTick ==
    \E r \in {get_json_report(monitor, JsonEnv, FALSE, DefaultTop, "cpu", clock)} :
        /\ driver.pc = "tick"
        /\ monitor' = r.self
        /\ disk_io_ts' = DiskSampledAt(r, disk_io, clock, disk_io_ts)
        /\ driver' = IF r.raised THEN [driver EXCEPT !.pc = "raised"]
                     ELSE [driver EXCEPT !.pc = "sleep", !.ticks = @ + 1]
        /\ ret' = TickObs("get_json_report", r)
        /\ UNCHANGED <<clock, net_io, disk_io, procs, widgets, pushed, probe_log,
                       out_file, app>>

(* line 599: time.sleep(args.interval) *)
LoopSleep ==
    /\ driver.pc = "sleep"
    /\ \E over \in SleepOverrun :
          /\ clock + driver.interval * Second + over
                <= StartTime + MainHorizon * Second
          /\ clock' = clock + driver.interval * Second + over
    /\ driver' = [driver EXCEPT !.pc = "check"]
    /\ UNCHANGED <<net_io, disk_io, procs, monitor, widgets, ret, pushed,
                   probe_log, disk_io_ts, out_file, app>>

(* lines 600-601 *)
LoopCheck ==
    /\ driver.pc = "check"
    /\ driver' = [driver EXCEPT !.pc = IF LoopEnds(driver.end_time, clock)
                                       THEN "done" ELSE "tick"]
    /\ UNCHANGED <<clock, net_io, disk_io, procs, monitor, widgets, ret, pushed,
                   probe_log, disk_io_ts, out_file, app>>

(***************************************************************************)
(* The TUI widgets' renders and timer callbacks.  history_up and           *)
(* history_down keep the rate in the unit get_network_info returns it in   *)
(* (hundredths of MiB/s); the widget scales both by the same 1024 * 1024.  *)
(***************************************************************************)
WidgetHistorySize == 60

OverviewWidget_render ==
    LET r == get_network_info(monitor, net_io, clock)
    IN  /\ monitor' = r.self
        /\ ret' = NetObs("OverviewWidget.render", r)
        /\ UNCHANGED <<clock, net_io, disk_io, procs, widgets, pushed, probe_log,
                       disk_io_ts, out_file, driver, app>>

NetworkDetailWidget_update_network ==
    LET r == get_network_info(monitor, net_io, clock)
    IN  /\ Len(widgets.history_up) < MaxWidgetSamples
        /\ monitor' = r.self
        /\ widgets' = [widgets EXCEPT
              !.history_up = deque_append(@, r.result.send_rate_mib_s,
                                          WidgetHistorySize),
              !.history_down = deque_append(@, r.result.recv_rate_mib_s,
                                            WidgetHistorySize)]
        /\ ret' = NetObs("NetworkDetailWidget.update_network", r)
        /\ UNCHANGED <<clock, net_io, disk_io, procs, pushed, probe_log,
                       disk_io_ts, out_file, driver, app>>

(* int(x) of a quotient: truncation towards zero *)
TruncDiv(n, d) ==
    IF (n >= 0) = (d > 0) THEN Abs(n) \div Abs(d) ELSE -(Abs(n) \div Abs(d))

chars == bars

(* int(val / max_val * (len(chars) - 1)) for every sample.  The rounding of
   the quotient and of the product is below the distance of 7 * val / max_val
   from the next integer unless that number is an integer; the rates the
   widget stores here make it an integer only as a multiple of 7 of a
   quotient that is itself computed exactly. *)
Normalized(data) ==
    [k \in 1..Len(data) |-> TruncDiv((Len(chars) - 1) * data[k], SeqMax(data))]

(* chars[i]: a negative i counts from the end, IndexError outside -8..7 *)
Subscript(i) ==
    IF i \in 0..Len(chars) - 1 THEN [raised |-> FALSE, glyph |-> chars[i + 1]]
    ELSE IF i \in -Len(chars)..-1
    THEN [raised |-> FALSE, glyph |-> chars[i + Len(chars) + 1]]
    ELSE [raised |-> TRUE, glyph |-> "IndexError"]

(* NetworkDetailWidget._create_sparkline *)
NetworkDetailWidget_create_sparkline(data) ==
    IF data = <<>> \/ SeqMax(data) = 0
    THEN [raised |-> FALSE, index |-> <<>>,
          result |-> [k \in 1..Min(Len(data), WidgetHistorySize) |-> chars[1]]]
    ELSE LET normalized == Normalized(data)
         IN  [raised |-> \E k \in 1..Len(data) : Subscript(normalized[k]).raised,
              index  |-> normalized,
              result |-> [k \in 1..Len(data) |-> Subscript(normalized[k]).glyph]]

NetworkDetailWidget_render ==
    LET r    == get_network_info(monitor, net_io, clock)
        up   == NetworkDetailWidget_create_sparkline(widgets.history_up)
        down == NetworkDetailWidget_create_sparkline(widgets.history_down)
    IN  /\ monitor' = r.self
        /\ ret' = [op |-> "NetworkDetailWidget.render",
                   raised |-> up.raised \/ down.raised,
                   sent_rate |-> r.sent_rate, recv_rate |-> r.recv_rate,
                   result |-> r.result,
                   sparkline_up |-> up, sparkline_down |-> down]
        /\ UNCHANGED <<clock, net_io, disk_io, procs, widgets, pushed, probe_log,
                       disk_io_ts, out_file, driver, app>>

(* on_mount, line 230: the 1.0 s timer fires and runs update_network *)
NetworkTimerFires ==
    LET r == get_network_info(monitor, net_io, clock + Second)
    IN  /\ Len(widgets.history_up) < MaxNetSamples
        /\ clock' = clock + Second
        /\ monitor' = r.self
        /\ widgets' = [widgets EXCEPT
              !.history_up = deque_append(@, r.result.send_rate_mib_s,
                                          WidgetHistorySize),
              !.history_down = deque_append(@, r.result.recv_rate_mib_s,
                                            WidgetHistorySize)]
        /\ ret' = NetObs("NetworkDetailWidget.update_network", r)
        /\ UNCHANGED <<net_io, disk_io, procs, pushed, probe_log,
                       disk_io_ts, out_file, driver, app>>

CPUDetailWidget_render ==
    /\ \E cpu \in CpuReadings :
          ret' = [op |-> "CPUDetailWidget.render", raised |-> FALSE, cpu |-> cpu]
    /\ UNCHANGED <<clock, net_io, disk_io, procs, monitor, widgets, pushed, probe_log,
                   disk_io_ts, out_file, driver, app>>

(***************************************************************************)
(* Specifications.                                                         *)
(***************************************************************************)
ZeroNet == [bytes_sent |-> 0, bytes_recv |-> 0]
ZeroDisk == [read_bytes |-> 0, write_bytes |-> 0]

(* the rate trackers *)
InitRate ==
    \E net \in NetCounters, disk \in {None, ZeroDisk} :
        Constructed(net, disk, <<>>, FALSE)

NextRate ==
    \/ AdvanceClock({-Second, HalfSecond, Second}, RateHorizon)
    \/ NetTraffic
    \/ DiskTraffic
    \/ CallGetNetworkInfo
    \/ CallGetDiskInfo

SpecRate == InitRate /\ [][NextRate]_vars

(* the rate trackers under counter resets and clock steps, disk readable *)
InitReset == Constructed(ZeroNet, ZeroDisk, <<>>, FALSE)

NextReset ==
    \/ AdvanceClock({-Second, Second}, ResetHorizon)
    \/ NetTraffic
    \/ DiskCounterTraffic
    \/ CallGetNetworkInfo
    \/ CallGetDiskInfo

SpecReset == InitReset /\ [][NextReset]_vars

(* the temperature cache *)
InitTemp == \E temps \in BOOLEAN : Constructed(ZeroNet, ZeroDisk, <<>>, temps)

NextTemp ==
    \/ AdvanceClock({-Second, Second}, TempHorizon)
    \/ CallGetTemperatureInfo
    \/ SetEnableTemps

SpecTemp == InitTemp /\ [][NextTemp]_vars

(* the temperature cache under a clock that never steps back *)
NextTempForward ==
    \/ AdvanceClock({Second}, TempHorizon)
    \/ CallGetTemperatureInfo
    \/ SetEnableTemps

SpecTempForward == InitTemp /\ [][NextTempForward]_vars

(* the process ranking *)
InitProc == Constructed(ZeroNet, ZeroDisk, <<>>, FALSE)

NextProc ==
    \/ ProcWait
    \/ ProcSpawn
    \/ ProcExit
    \/ ProcLoad
    \/ CallGetTopProcesses

SpecProc == InitProc /\ [][NextProc]_vars

(* the history windows *)
InitHistory == Constructed(ZeroNet, ZeroDisk, <<>>, FALSE)

NextHistory ==
    \/ Upload
    \/ PrintReport(MaxPushes, {FALSE})

SpecHistory == InitHistory /\ [][NextHistory]_vars

(* the widgets over one shared monitor *)
InitTui == Constructed(ZeroNet, ZeroDisk, <<>>, FALSE)

NextTui ==
    \/ AdvanceClock({HalfSecond, Second}, TuiHorizon)
    \/ NetTraffic
    \/ OverviewWidget_render
    \/ NetworkDetailWidget_update_network
    \/ NetworkDetailWidget_render
    \/ CPUDetailWidget_render

SpecTui == InitTui /\ [][NextTui]_vars

(* the network widget's sparklines, fed by its timer *)
InitNetSpark == Constructed(ZeroNet, ZeroDisk, <<>>, FALSE)

NextNetSpark ==
    \/ NetTraffic
    \/ NetworkTimerFires
    \/ NetworkDetailWidget_render

SpecNetSpark == InitNetSpark /\ [][NextNetSpark]_vars

(***************************************************************************)
(* The settings dialog and the buttons of the process table.               *)
(***************************************************************************)
IntervalTexts == {"1.0", "0.5", "abc"}
ProcessTexts == {"10", "50", ""}
ProcessButtons ==
    {"sort-cpu-btn", "sort-mem-btn", "top-10-btn", "top-20-btn", "top-50-btn"}

notify(a) == [a EXCEPT !.notified = @ + 1]

(* mutant: the callback applies the number of processes that was entered *)
handle_settings_Applies(a, settings) ==
    IF settings # None
    THEN notify([a EXCEPT !.num_processes =
                     IF settings.processes = "50" THEN 50 ELSE 10])
    ELSE a

(* lines 711-714 *)
handle_settings(a, settings) ==
    IF settings # None THEN notify(a) ELSE a

(* dismiss(result): the dialog is popped and the callback given to
   push_screen runs with the result *)
dismiss(a, result) == handle_settings([a EXCEPT !.screen = "main"], result)

action_show_settings ==
    /\ app.screen = "main"
    /\ app' = [app EXCEPT !.screen = "settings"]
    /\ ret' = [op |-> "action_show_settings"]
    /\ UNCHANGED <<clock, net_io, disk_io, procs, monitor, widgets, pushed,
                   probe_log, disk_io_ts, out_file, driver>>

(* SettingsScreen.on_button_pressed, save-btn *)
SettingsSave(interval, num_procs, enable_temps) ==
    /\ app.screen = "settings"
    /\ app.notified + 2 <= MaxNotices
    /\ app' = dismiss(notify(app),
                      [interval |-> interval, processes |-> num_procs,
                       temps |-> enable_temps])
    /\ ret' = [op |-> "save-btn", interval |-> interval,
               processes |-> num_procs, temps |-> enable_temps]
    /\ UNCHANGED <<clock, net_io, disk_io, procs, monitor, widgets, pushed,
                   probe_log, disk_io_ts, out_file, driver>>

PressSave ==
    \E interval \in IntervalTexts, num_procs \in ProcessTexts,
       enable_temps \in BOOLEAN :
        SettingsSave(interval, num_procs, enable_temps)

(* SettingsScreen.on_button_pressed, theme-toggle-btn *)
SettingsToggleTheme ==
    /\ app.screen = "settings"
    /\ app.notified + 1 <= MaxNotices
    /\ app' = notify([app EXCEPT !.dark = ~@])
    /\ ret' = [op |-> "theme-toggle-btn"]
    /\ UNCHANGED <<clock, net_io, disk_io, procs, monitor, widgets, pushed,
                   probe_log, disk_io_ts, out_file, driver>>

(* SettingsScreen.on_button_pressed, any other button *)
SettingsCancel ==
    /\ app.screen = "settings"
    /\ app' = dismiss(app, None)
    /\ ret' = [op |-> "cancel-btn"]
    /\ UNCHANGED <<clock, net_io, disk_io, procs, monitor, widgets, pushed,
                   probe_log, disk_io_ts, out_file, driver>>

(* ProcessTableDetailWidget.on_button_pressed with its update_processes *)
ProcessButtonPressed(id) ==
    /\ app.screen = "main"
    /\ \E a \in {[app EXCEPT
                     !.sort_by = CASE id = "sort-cpu-btn" -> "cpu"
                                   [] id = "sort-mem-btn" -> "memory"
                                   [] OTHER -> @,
                     !.num_processes = CASE id = "top-10-btn" -> 10
                                         [] id = "top-20-btn" -> 20
                                         [] id = "top-50-btn" -> 50
                                         [] OTHER -> @]} :
       \E r \in {get_top_processes(monitor, procs, a.num_processes, a.sort_by,
                                   clock)} :
          /\ app' = a
          /\ monitor' = r.self
          /\ procs' = r.table
          /\ clock' = clock + r.slept
          /\ ret' = [op |-> id]
    /\ UNCHANGED <<net_io, disk_io, widgets, pushed, probe_log, disk_io_ts,
                   out_file, driver>>

PressProcessButton == \E id \in ProcessButtons : ProcessButtonPressed(id)

InitSettings == Constructed(ZeroNet, ZeroDisk, <<>>, FALSE)

NextSettings ==
    \/ AdvanceClock({Second}, SettingsHorizon)
    \/ action_show_settings
    \/ PressSave
    \/ SettingsToggleTheme
    \/ SettingsCancel
    \/ PressProcessButton

SpecSettings == InitSettings /\ [][NextSettings]_vars

(* ticks of which some are abandoned half-way *)
InitAbandon == Constructed(ZeroNet, ZeroDisk, <<>>, FALSE)

NextAbandon ==
    \/ AdvanceClock({Second}, AbandonHorizon)
    \/ Upload
    \/ DiskWrite
    \/ AbandonedTick
    \/ JsonTick

SpecAbandon == InitAbandon /\ [][NextAbandon]_vars

(* the --out file under continuous and one-shot runs *)
InitOut == Constructed(ZeroNet, ZeroDisk, <<>>, FALSE)

NextOut ==
    \/ AdvanceClock({Second}, OutHorizon)
    \/ Upload
    \/ \E ndjson \in BOOLEAN : ContinuousJsonTick(ndjson)
    \/ \E ndjson \in BOOLEAN : OneShotJson(ndjson)

SpecOut == InitOut /\ [][NextOut]_vars

(* main's continuous loop; the loop runs whenever it can *)
InitMain == \E disk \in {None, ZeroDisk} : Constructed(ZeroNet, disk, <<>>, FALSE)

(* the report of a tick returns or raises: LoopTick, seen from the loop *)
TickReturns ==
    /\ driver.pc = "tick"
    /\ driver' \in {[driver EXCEPT !.pc = "sleep", !.ticks = @ + 1],
                     [driver EXCEPT !.pc = "raised"]}

NextMain ==
    \/ \E duration \in Durations, interval \in Intervals :
          MainContinuous(duration, interval)
    \/ LoopTick
    \/ LoopSleep
    \/ LoopCheck
    \/ Upload
    \/ DiskAppears

SpecMain ==
    /\ InitMain
    /\ [][NextMain]_vars
    /\ WF_driver(TickReturns)
    /\ WF_vars(LoopSleep \/ LoopCheck)

(* the sparkline of the CPU history *)
SparkSamples == {10, 45, 90}
SparkWidths == {1, 2, 3, 15, 98}

(* print_performance_report, line 313, alone *)
HistoryAppend(v) ==
    /\ Len(monitor.cpu_history) < MaxSamples
    /\ monitor' = [monitor EXCEPT
                     !.cpu_history = deque_append(@, v, monitor.history_size)]
    /\ ret' = Consumed
    /\ UNCHANGED <<clock, net_io, disk_io, procs, widgets, pushed, probe_log,
                   disk_io_ts, out_file, driver, app>>

CreateSparkline(width) ==
    /\ ret' = [op |-> "_create_sparkline", width |-> width,
               result |-> _create_sparkline(monitor.cpu_history, width)]
    /\ UNCHANGED <<clock, net_io, disk_io, procs, monitor, widgets, pushed,
                   probe_log, disk_io_ts, out_file, driver, app>>

InitSpark == Constructed(ZeroNet, ZeroDisk, <<>>, FALSE)

NextSpark ==
    \/ \E v \in SparkSamples : HistoryAppend(v)
    \/ \E width \in SparkWidths : CreateSparkline(width)

SpecSpark == InitSpark /\ [][NextSpark]_vars

(* the command-line driver, without --temps *)
Init == \E disk \in {None, ZeroDisk} : Constructed(ZeroNet, disk, <<>>, FALSE)

Next ==
    \/ AdvanceClock({Second}, TickHorizon)
    \/ NetTraffic
    \/ PrintTick(TickPushes)
    \/ JsonTick

Spec == Init /\ [][Next]_vars

(***************************************************************************)
(* Properties.                                                             *)
(***************************************************************************)
TTL(self) == self.temp_refresh_seconds * TicksPerSecond

(* C1: in every rate update, a counter whose new reading is below the
   stored baseline reports a rate of exactly 0, never a negative one
   (get_network_info: bytes sent / received; get_disk_info: bytes read /
   written). *)
C1_ResetRateIsZero ==
    [][ /\ CallGetNetworkInfo =>
              /\ net_io.bytes_sent < monitor._prev_net_io.bytes_sent
                    => /\ ret'.sent_rate.num = 0
                       /\ ret'.result.send_rate_mib_s = 0
              /\ net_io.bytes_recv < monitor._prev_net_io.bytes_recv
                    => /\ ret'.recv_rate.num = 0
                       /\ ret'.result.recv_rate_mib_s = 0
        /\ (CallGetDiskInfo /\ ret'.rates # None) =>
              /\ disk_io.read_bytes < monitor._prev_disk_io.read_bytes
                    => ret'.rates.read.num = 0
              /\ disk_io.write_bytes < monitor._prev_disk_io.write_bytes
                    => ret'.rates.write.num = 0
      ]_vars

(* C2: after a probe that failed or read no temperature at time t, a call
   of get_temperature_info at t' with t' - t < temp_refresh_seconds returns
   None and does not run the probe again. *)
C2_FailedProbeIsCached ==
    [][ ( /\ CallGetTemperatureInfo
          /\ monitor.enable_temps
          /\ probe_log # None
          /\ ~probe_log.ok
          /\ clock - probe_log.at < TTL(monitor) )
        => (ret'.result = None /\ ~ret'.probed)
      ]_vars

(* C3: with temperatures enabled and a reading v stored at t0, a call at t
   with t - t0 < temp_refresh_seconds returns v, runs no probe and leaves
   the cached value and its fetch time alone; a call at t with
   t - t0 >= temp_refresh_seconds runs the probe. *)
C3_CachedWithinTTL ==
    [][ ( /\ CallGetTemperatureInfo
          /\ monitor.enable_temps
          /\ monitor._last_temp # None )
        => IF clock - monitor._last_temp_ts < TTL(monitor)
           THEN /\ ret'.result = monitor._last_temp
                /\ ~ret'.probed
                /\ probe_log' = probe_log
                /\ monitor'._last_temp = monitor._last_temp
                /\ monitor'._last_temp_ts = monitor._last_temp_ts
           ELSE ret'.probed
      ]_vars

(* a reading fetched earlier has just been served from the cache *)
C3_Witness ==
    /\ ret.op = "get_temperature_info"
    /\ ~ret.probed
    /\ ret.result # None
    /\ ret.result = monitor._last_temp
    /\ clock - monitor._last_temp_ts > 0
    /\ clock - monitor._last_temp_ts < TTL(monitor)

(* C4: in a network rate update where no counter went down and the time
   dt elapsed since the baseline is > 0, each rate is (new - baseline) / dt
   before rounding; 0 -> 1048576 bytes sent over 1.0 s reads 1.00 MiB/s. *)
C4_RateIsDeltaOverElapsed ==
    [][ ( /\ CallGetNetworkInfo
          /\ net_io.bytes_sent >= monitor._prev_net_io.bytes_sent
          /\ net_io.bytes_recv >= monitor._prev_net_io.bytes_recv
          /\ clock - monitor._prev_sample_ts > 0 )
        => /\ ret'.sent_rate =
                Rat(net_io.bytes_sent - monitor._prev_net_io.bytes_sent,
                    clock - monitor._prev_sample_ts)
           /\ ret'.recv_rate =
                Rat(net_io.bytes_recv - monitor._prev_net_io.bytes_recv,
                    clock - monitor._prev_sample_ts)
           /\ ( /\ monitor._prev_net_io.bytes_sent = 0
                /\ net_io.bytes_sent = 1048576
                /\ clock - monitor._prev_sample_ts = Second )
              => ret'.result.send_rate_mib_s = 100
      ]_vars

(* one mebibyte was sent during the half second since the baseline *)
C4_Witness ==
    /\ ret.op = "get_network_info"
    /\ ret.sent_rate = Rat(MiB, HalfSecond)
    /\ ret.result.send_rate_mib_s = 200
    /\ ret.recv_rate.num = 0

LastK(log, k) == SubSeq(log, Len(log) - Min(Len(log), k) + 1, Len(log))

(* C5: after m pushes each history window of capacity k = 20 holds exactly
   the last min(m, k) pushed samples, oldest first; its length never
   exceeds k and is k once m > k. *)
C5_HistoryIsLastK ==
    /\ monitor.cpu_history = LastK(pushed.cpu, HistorySize)
    /\ monitor.memory_history = LastK(pushed.mem, HistorySize)
    /\ monitor.network_history = LastK(pushed.net, HistorySize)
    /\ Len(monitor.cpu_history) = Min(Len(pushed.cpu), HistorySize)
    /\ Len(monitor.memory_history) = Min(Len(pushed.mem), HistorySize)
    /\ Len(monitor.network_history) = Min(Len(pushed.net), HistorySize)

(* more than k samples were pushed and the one busy sample is now the
   oldest one kept *)
C5_Witness ==
    /\ Len(pushed.cpu) > HistorySize
    /\ Len(monitor.cpu_history) = HistorySize
    /\ monitor.cpu_history[1] # IdleSample.cpu
    /\ monitor.cpu_history[2] = IdleSample.cpu

SortedDescCpu(s) ==
    \A i \in 1..Len(s) - 1 : s[i].cpu_percent >= s[i + 1].cpu_percent

NoDuplicatePids(s) ==
    \A i, j \in 1..Len(s) : i # j => s[i].pid # s[j].pid

(* C6, as stated: for every process table and every integer n,
   get_top_processes(num = n, sort_by = 'cpu') returns a sequence sorted by
   descending cpu_percent, of length <= n, with no pid twice. *)
C6_TopCpuAnyN ==
    [][ \A n \in NumChoices :
            GetTopProcesses(n, "cpu")
            => /\ SortedDescCpu(ret'.result)
               /\ Len(ret'.result) <= n
               /\ NoDuplicatePids(ret'.result)
      ]_vars

(* C6, amended: the result is sorted by descending cpu_percent and holds no
   pid twice for every integer n; its length is <= n for every n >= 0. *)
C6_TopCpuNonNegativeN ==
    [][ \A n \in NumChoices :
            GetTopProcesses(n, "cpu")
            => /\ SortedDescCpu(ret'.result)
               /\ n >= 0 => Len(ret'.result) <= n
               /\ NoDuplicatePids(ret'.result)
      ]_vars

(* two records came back, the busier one first although enumerated last *)
C6_Witness ==
    /\ ret.op = "get_top_processes"
    /\ ret.primed_pass
    /\ Len(ret.result) = 2
    /\ ret.result[1].cpu_percent > ret.result[2].cpu_percent
    /\ ret.result[1].pid > ret.result[2].pid

(* C7: get_top_processes with a sort key that is neither 'cpu' nor 'memory'
   does what the same call with sort_by = 'cpu' does: same result, same
   priming pass, same _proc_prime_ts. *)
C7_UnknownKeyActsAsCpu ==
    [][ \A n \in NumChoices :
            GetTopProcesses(n, "name") => GetTopProcesses(n, "cpu")
      ]_vars

(* C8: the first rate update after construction returns a zero rate for
   every counter, stores the reading as the baseline and does not raise,
   also when there was no disk baseline at construction. *)
C8_FirstUpdateZeroAndSafe ==
    [][ ( /\ ret.op = "__init__"
          /\ CallGetNetworkInfo \/ CallGetDiskInfo )
        => /\ ~ret'.raised
           /\ CallGetNetworkInfo =>
                 /\ ret'.sent_rate.num = 0
                 /\ ret'.recv_rate.num = 0
                 /\ monitor'._prev_net_io = net_io
           /\ (CallGetDiskInfo /\ disk_io # None) =>
                 /\ ret'.rates # None
                 /\ ret'.rates.read.num = 0
                 /\ ret'.rates.write.num = 0
                 /\ monitor'._prev_disk_io = disk_io
      ]_vars

(* C9: every completed tick, through get_json_report or through
   print_performance_report, pushes exactly one sample into each history
   window: the CPU gauge, the memory gauge, and the sum of the send and
   receive rates. *)
C9_EveryTickPushes ==
    [][ ( /\ JsonTick \/ PrintTick(TickPushes)
          /\ ~ret'.raised )
        => LET net == get_network_info(monitor, net_io, clock).result
           IN  /\ \E cpu \in CpuReadings :
                     monitor'.cpu_history =
                        deque_append(monitor.cpu_history, cpu, HistorySize)
               /\ \E mem \in MemReadings :
                     monitor'.memory_history =
                        deque_append(monitor.memory_history, mem, HistorySize)
               /\ monitor'.network_history =
                     deque_append(monitor.network_history,
                                  net.send_rate_mib_s + net.recv_rate_mib_s,
                                  HistorySize)
      ]_vars

(* C10: a widget's render or timer callback leaves the monitor's rate
   baselines as they were. *)
C10_RendersKeepBaselines ==
    [][ ( \/ OverviewWidget_render
          \/ NetworkDetailWidget_render
          \/ NetworkDetailWidget_update_network
          \/ CPUDetailWidget_render )
        => /\ monitor'._prev_net_io = monitor._prev_net_io
           /\ monitor'._prev_sample_ts = monitor._prev_sample_ts
           /\ monitor'._prev_disk_io = monitor._prev_disk_io
      ]_vars

(* C11: a tick abandoned between its steps does not corrupt later ticks:
   in every completed tick each counter family's rate is the family's
   counter delta since its stored baseline, divided by the time elapsed
   since that same baseline was taken (counters that did not go down, time
   that did advance). *)
C11_AbandonedTickHarmless ==
    [][ ( /\ JsonTick
          /\ ~ret'.raised )
        => LET disk == get_disk_info(monitor, disk_io, clock)
               net  == get_network_info(monitor, net_io, clock)
               prev == monitor._prev_disk_io
           IN  /\ ( /\ disk_io # None
                    /\ disk_io.read_bytes >= prev.read_bytes
                    /\ disk_io.write_bytes >= prev.write_bytes
                    /\ clock > disk_io_ts )
                  => /\ disk.rates.read =
                          Rat(disk_io.read_bytes - prev.read_bytes,
                              clock - disk_io_ts)
                     /\ disk.rates.write =
                          Rat(disk_io.write_bytes - prev.write_bytes,
                              clock - disk_io_ts)
               /\ ( /\ net_io.bytes_sent >= monitor._prev_net_io.bytes_sent
                    /\ net_io.bytes_recv >= monitor._prev_net_io.bytes_recv
                    /\ clock > monitor._prev_sample_ts )
                  => /\ net.sent_rate =
                          Rat(net_io.bytes_sent - monitor._prev_net_io.bytes_sent,
                              clock - monitor._prev_sample_ts)
                     /\ net.recv_rate =
                          Rat(net_io.bytes_recv - monitor._prev_net_io.bytes_recv,
                              clock - monitor._prev_sample_ts)
      ]_vars

FailedProbe(kind) == [kind |-> kind, temp |-> 0]

(* C12: when the probe is run and exits with a non-zero status, times out
   or is missing, get_temperature_info returns None without raising, and
   whichever of the three happened the call is the same step: same return
   value, same monitor state, which is the state before the call. *)
C12_ProbeFailuresAlike ==
    [][ \A k1, k2 \in FailureKinds :
            ( /\ monitor.enable_temps
              /\ ~CacheValid(monitor, clock)
              /\ GetTemperatureInfo(FailedProbe(k1)) )
            => /\ GetTemperatureInfo(FailedProbe(k2))
               /\ ret'.probed
               /\ ret'.result = None
               /\ ~ret'.raised
               /\ monitor' = monitor
      ]_vars

(* the probe has just failed while an expired reading was stored: the call
   returned None and the stored reading is still there *)
C12_Witness ==
    /\ ret.op = "get_temperature_info"
    /\ ret.probed
    /\ ret.result = None
    /\ monitor._last_temp # None
    /\ probe_log = [at |-> clock, ok |-> FALSE]

(* C13: with enable_temps false, get_temperature_info returns None, does not
   run the probe, and leaves the cached temperature and its fetch time as
   they were. *)
C13_DisabledReadsNothing ==
    [][ ( /\ CallGetTemperatureInfo
          /\ ~monitor.enable_temps )
        => /\ ret'.result = None
           /\ ~ret'.probed
           /\ ~ret'.raised
           /\ probe_log' = probe_log
           /\ monitor'._last_temp = monitor._last_temp
           /\ monitor'._last_temp_ts = monitor._last_temp_ts
      ]_vars

(* temperatures were switched off while a reading was cached; the call
   returned None, ran no probe and the reading is still cached *)
C13_Witness ==
    /\ ret.op = "get_temperature_info"
    /\ ~monitor.enable_temps
    /\ ~ret.probed
    /\ ret.result = None
    /\ monitor._last_temp # None
    /\ probe_log # None

(* C14: with --json and --out FILE, a tick of continuous mode leaves the
   file's contents in place and puts its record behind them, so that k
   ticks leave the previous contents followed by the k records in tick
   order; a one-shot run leaves exactly its single record in the file. *)
C14_OutFileAppendsOrReplaces ==
    [][ \A ndjson \in BOOLEAN :
            /\ ContinuousJsonTick(ndjson) =>
                  /\ Len(out_file') = Len(out_file) + 1
                  /\ SubSeq(out_file', 1, Len(out_file)) = out_file
                  /\ out_file'[Len(out_file')].timestamp = clock
                  /\ out_file'[Len(out_file')].indent = IF ndjson THEN 0 ELSE 2
                  /\ out_file'[Len(out_file')].network =
                        get_network_info(monitor, net_io, clock).result
            /\ OneShotJson(ndjson) =>
                  /\ Len(out_file') = 1
                  /\ out_file'[1].timestamp = clock
                  /\ out_file'[1].indent = IF ndjson THEN 0 ELSE 2
      ]_vars

(* the file held one record; two later ticks of a continuous run have put
   theirs behind it, in tick order *)
C14_Witness ==
    /\ ret.op = "get_json_report"
    /\ Len(out_file) = 3
    /\ out_file[1].timestamp < out_file[2].timestamp
    /\ out_file[2].timestamp < out_file[3].timestamp
    /\ out_file[1].network # out_file[2].network
    /\ out_file[3].timestamp = clock

(* C15: the disk I/O rate returned by get_disk_info is the disk counter
   delta since the previous disk snapshot divided by the time elapsed since
   that disk snapshot was taken, however the calls of get_disk_info and
   get_network_info interleave (counters that did not go down, time that
   did advance). *)
C15_DiskRateOverOwnElapsed ==
    [][ ( /\ CallGetDiskInfo
          /\ disk_io # None
          /\ monitor._prev_disk_io # None
          /\ disk_io.read_bytes >= monitor._prev_disk_io.read_bytes
          /\ disk_io.write_bytes >= monitor._prev_disk_io.write_bytes
          /\ clock > disk_io_ts )
        => /\ ret'.rates.read =
                Rat(disk_io.read_bytes - monitor._prev_disk_io.read_bytes,
                    clock - disk_io_ts)
           /\ ret'.rates.write =
                Rat(disk_io.write_bytes - monitor._prev_disk_io.write_bytes,
                    clock - disk_io_ts)
      ]_vars

(* the denominator of a rate update that reads the timestamp ts at time now *)
Denominator(now, ts) == IF now - ts > Eps THEN now - ts ELSE Eps

(* C16: every rate update that has a baseline to compare with stores the
   new reading as the baseline, whether or not a counter went down, and a
   counter that did not go down reports (new - baseline) / dt whatever the
   other counter of the same update did. *)
C16_BaselineAlwaysReplaced ==
    [][ /\ CallGetNetworkInfo =>
              LET prev == monitor._prev_net_io
                  dt   == Denominator(clock, monitor._prev_sample_ts)
              IN  /\ monitor'._prev_net_io = net_io
                  /\ monitor'._prev_sample_ts = clock
                  /\ net_io.bytes_sent >= prev.bytes_sent
                        => ret'.sent_rate = Rat(net_io.bytes_sent - prev.bytes_sent, dt)
                  /\ net_io.bytes_recv >= prev.bytes_recv
                        => ret'.recv_rate = Rat(net_io.bytes_recv - prev.bytes_recv, dt)
        /\ (CallGetDiskInfo /\ disk_io # None /\ monitor._prev_disk_io # None) =>
              LET prev == monitor._prev_disk_io
                  dt   == Denominator(clock, monitor._prev_sample_ts)
              IN  /\ monitor'._prev_disk_io = disk_io
                  /\ disk_io.read_bytes >= prev.read_bytes
                        => ret'.rates.read = Rat(disk_io.read_bytes - prev.read_bytes, dt)
                  /\ disk_io.write_bytes >= prev.write_bytes
                        => ret'.rates.write = Rat(disk_io.write_bytes - prev.write_bytes, dt)
      ]_vars

(* bytes_recv fell back to 0 while bytes_sent grew: the send rate is still
   reported, and the fallen reading is the new baseline *)
C16_Witness ==
    /\ ret.op = "get_network_info"
    /\ ret.recv_rate.num < 0
    /\ ret.sent_rate.num > 0
    /\ monitor._prev_net_io = net_io
    /\ net_io.bytes_recv = 0

(* C17: in every rate update the elapsed-time denominator is at least 1e-6:
   a call at or before the stored baseline timestamp divides the delta by
   exactly 1e-6, any other call by the time elapsed since that timestamp;
   no call raises for a zero or negative elapsed time. *)
C17_ElapsedFloored ==
    [][ /\ CallGetNetworkInfo =>
              LET prev == monitor._prev_net_io
                  dt   == clock - monitor._prev_sample_ts
              IN  /\ ~ret'.raised
                  /\ ret'.sent_rate.den > 0
                  /\ ret'.recv_rate.den > 0
                  /\ dt <= 0 =>
                        /\ ret'.sent_rate = Rat(net_io.bytes_sent - prev.bytes_sent, Eps)
                        /\ ret'.recv_rate = Rat(net_io.bytes_recv - prev.bytes_recv, Eps)
                  /\ dt > 0 =>
                        /\ dt >= Eps
                        /\ ret'.sent_rate = Rat(net_io.bytes_sent - prev.bytes_sent, dt)
                        /\ ret'.recv_rate = Rat(net_io.bytes_recv - prev.bytes_recv, dt)
        /\ (CallGetDiskInfo /\ disk_io # None /\ monitor._prev_disk_io # None) =>
              LET prev == monitor._prev_disk_io
                  dt   == clock - monitor._prev_sample_ts
              IN  /\ ~ret'.raised
                  /\ ret'.rates.read.den > 0
                  /\ ret'.rates.write.den > 0
                  /\ dt <= 0 =>
                        /\ ret'.rates.read = Rat(disk_io.read_bytes - prev.read_bytes, Eps)
                        /\ ret'.rates.write = Rat(disk_io.write_bytes - prev.write_bytes, Eps)
                  /\ dt > 0 =>
                        /\ ret'.rates.read = Rat(disk_io.read_bytes - prev.read_bytes, dt)
                        /\ ret'.rates.write = Rat(disk_io.write_bytes - prev.write_bytes, dt)
      ]_vars

(* one mebibyte was counted in a call made no later than its baseline
   timestamp: the rate is 1048576 bytes per 1e-6 s *)
C17_Witness ==
    /\ ret.op = "get_network_info"
    /\ ret.sent_rate = [num |-> MiB, den |-> Eps]
    /\ ret.recv_rate.num = 0

(* C18: _proc_prime_ts is the time the last priming pass began (only a
   priming call changes it, to that call's time), a priming pass runs only
   when more than 5 s have passed since then, and a call that primes sleeps
   0.2 s and then ranks readings taken after the pass: every record carries
   the CPU figure of its process, none the 0.0 of a missing baseline. *)
C18_PrimingPassesSpaced ==
    [][ /\ \A n \in NumChoices, k \in SortKeys :
              GetTopProcesses(n, k) =>
                 IF ret'.primed_pass
                 THEN /\ clock - monitor._proc_prime_ts > PrimeInterval * TicksPerSecond
                      /\ monitor'._proc_prime_ts = clock
                      /\ clock' = clock + PrimeSleep
                      /\ \A i \in 1..Len(ret'.result) :
                            \E j \in 1..Len(procs) :
                               /\ procs[j].pid = ret'.result[i].pid
                               /\ procs[j].cpu_percent = ret'.result[i].cpu_percent
                 ELSE /\ monitor'._proc_prime_ts = monitor._proc_prime_ts
                      /\ clock' = clock
        /\ monitor'._proc_prime_ts # monitor._proc_prime_ts => CallGetTopProcesses
      ]_vars

(* the second priming pass of a run: the first call primed at the start, a
   call exactly 5.0 s later did not, and this one, 9.8 s later, did, with a
   busy process that had no baseline before the call *)
C18_Witness ==
    /\ ret.op = "get_top_processes"
    /\ ret.primed_pass
    /\ clock = StartTime + 2 * ProcPause + 2 * PrimeSleep
    /\ monitor._proc_prime_ts = StartTime + 2 * ProcPause + PrimeSleep
    /\ Len(ret.result) >= 1
    /\ ret.result[1].cpu_percent > 0

(* the place of the process pid in psutil.process_iter's enumeration *)
EnumIndex(table, pid) == CHOOSE i \in 1..Len(table) : table[i].pid = pid

(* C19: for sort_by = 'cpu' and for sort_by = 'memory', two records of the
   returned sequence whose values of the chosen metric are equal stand in
   the order in which the process enumeration yielded them. *)
C19_TiesKeepEnumerationOrder ==
    [][ \A n \in NumChoices, k \in {"cpu", "memory"} :
            GetTopProcesses(n, k)
            => \A i, j \in 1..Len(ret'.result) :
                  ( /\ i < j
                    /\ KeyOf(ret'.result[i], k) = KeyOf(ret'.result[j], k) )
                  => EnumIndex(procs, ret'.result[i].pid)
                        < EnumIndex(procs, ret'.result[j].pid)
      ]_vars

(* two busy processes tie on cpu_percent; the one enumerated first comes
   first although its memory_percent is the smaller one *)
C19_Witness ==
    /\ ret.op = "get_top_processes"
    /\ Len(ret.result) = 2
    /\ ret.result[1].cpu_percent = ret.result[2].cpu_percent
    /\ ret.result[1].cpu_percent > 0
    /\ ret.result[1].memory_percent < ret.result[2].memory_percent
    /\ EnumIndex(procs, ret.result[1].pid) < EnumIndex(procs, ret.result[2].pid)

(* C20: for a history of at least 2 samples that are not all equal and a
   width >= 1, _create_sparkline returns exactly width glyphs, and glyph i
   is the level of the sample at index floor(i * len / width), the levels
   dividing [min, max] linearly into 8 with the minimum at level 0 and the
   maximum at level 7. *)
C20_SparklineResamplesByFloor ==
    [][ \A width \in SparkWidths :
          ( /\ CreateSparkline(width)
            /\ Len(monitor.cpu_history) >= 2
            /\ SeqMax(monitor.cpu_history) > SeqMin(monitor.cpu_history) )
          => LET data  == monitor.cpu_history
                 lo    == SeqMin(data)
                 hi    == SeqMax(data)
                 level(v) == IF v = hi THEN 7 ELSE (8 * (v - lo)) \div (hi - lo)
             IN  /\ Len(ret'.result) = width
                 /\ \A i \in 0..width - 1 :
                       ret'.result[i + 1]
                          = bars[level(data[(i * Len(data)) \div width + 1]) + 1]
      ]_vars

(* C21: a window whose samples are all equal renders, without a division
   by zero, as width copies of the flat glyph: the rendering of an empty
   window of the same width. *)
C21_FlatWindowRendersFlat ==
    [][ \A width \in SparkWidths :
          ( /\ CreateSparkline(width)
            /\ Len(monitor.cpu_history) >= 1
            /\ SeqMax(monitor.cpu_history) = SeqMin(monitor.cpu_history) )
          => /\ ret'.result = [i \in 1..width |-> FlatGlyph]
             /\ ret'.result = _create_sparkline(<<>>, width)
      ]_vars

(* C22: under a clock that never steps back, the stored reading and its
   fetch time change only in a call whose probe exited with status 0, to
   what that probe read and to the time of that call; and a call that
   returns a temperature returns the stored reading at an age below
   temp_refresh_seconds.  So a returned temperature was fetched by a
   successful probe less than temp_refresh_seconds before the call. *)
C22_ReturnedTemperatureIsFresh ==
    [][ /\ ( \/ monitor'._last_temp # monitor._last_temp
             \/ monitor'._last_temp_ts # monitor._last_temp_ts )
           => \E outcome \in ProbeOutcomes :
                 /\ GetTemperatureInfo(outcome)
                 /\ outcome.kind \in {"ok", "no_reading"}
                 /\ ret'.probed
                 /\ monitor'._last_temp_ts = clock
                 /\ monitor'._last_temp =
                       IF outcome.kind = "ok" THEN [cpu_temp_c |-> outcome.temp]
                       ELSE None
        /\ ( CallGetTemperatureInfo /\ ret'.result # None )
           => /\ ret'.result = monitor'._last_temp
              /\ clock - monitor'._last_temp_ts >= 0
              /\ clock - monitor'._last_temp_ts
                    < monitor.temp_refresh_seconds * TicksPerSecond
      ]_vars

(* a reading has expired and the probe run for this call failed: nothing
   was returned, although the old reading is still stored *)
C22_Witness ==
    /\ ret.op = "get_temperature_info"
    /\ ret.probed
    /\ ret.result = None
    /\ monitor.enable_temps
    /\ monitor._last_temp # None
    /\ monitor._last_temp_ts >= StartTime
    /\ clock - monitor._last_temp_ts >= monitor.temp_refresh_seconds * TicksPerSecond
    /\ probe_log = [at |-> clock, ok |-> FALSE]

(* C23: NetworkDetailWidget.render computes, for every sample of both
   histories, a glyph index in 0..7: it does not fail with an IndexError and
   picks no glyph by a negative index. *)
C23_SparklineIndexInRange ==
    [][ NetworkDetailWidget_render
        => /\ ~ret'.raised
           /\ \A k \in 1..Len(ret'.sparkline_up.index) :
                 ret'.sparkline_up.index[k] \in 0..7
           /\ \A k \in 1..Len(ret'.sparkline_down.index) :
                 ret'.sparkline_down.index[k] \in 0..7
      ]_vars

Running == driver.pc \notin {"not_started"}

HasDeadline ==
    /\ Running
    /\ driver.duration # None
    /\ driver.duration.seconds > 0

ReachedDeadline ==
    /\ HasDeadline
    /\ clock >= driver.start + driver.duration.seconds * Second

(* C24: the continuous loop leaves through its break only from an
   end-of-sleep check, after at least one tick, of a run with a duration
   D > 0 whose clock has reached start + D; the first check at which that
   is so does leave, every other check goes on to the next tick; and a run
   with D > 0 eventually ends (by the break, or earlier by a tick that
   raised), where a run with no duration or a duration of 0 never reaches
   the break. *)
C24_LoopStopsAtDeadline ==
    /\ [][ /\ ( (driver'.pc = "done" /\ driver.pc # "done")
                 => ( /\ LoopCheck
                      /\ driver.ticks >= 1
                      /\ ReachedDeadline ) )
            /\ ( LoopCheck
                 => (driver'.pc = IF ReachedDeadline THEN "done" ELSE "tick") )
          ]_vars
    /\ [](HasDeadline => <>(driver.pc \in {"done", "raised"}))
    /\ []((Running /\ ~HasDeadline) => driver.pc # "done")

(* a run with --duration 2 --interval 1 has left the loop after its second
   tick, at a check made exactly at start + 2 s *)
C24_Witness ==
    /\ driver.pc = "done"
    /\ driver.duration = [seconds |-> 2]
    /\ driver.interval = 1
    /\ driver.ticks = 2
    /\ clock = driver.start + 2 * Second

(* C25: the three history windows always have one common length; it is 0
   after construction, a completed print_performance_report tick takes it
   from n to min(n + 1, 20), and no other step changes it: after any
   sequence of ticks it is min(number of completed ticks, 20). *)
C25_WindowsShareLength ==
    /\ [] ( /\ Len(monitor.cpu_history) = Len(monitor.memory_history)
            /\ Len(monitor.memory_history) = Len(monitor.network_history)
            /\ Len(monitor.cpu_history) <= HistorySize )
    /\ ( Len(monitor.cpu_history) = 0 )
    /\ [][ LET completed == PrintTick(MaxPushes) /\ ~ret'.raised
               before == Len(monitor.network_history)
           IN  Len(monitor'.network_history) =
                   IF completed THEN Min(before + 1, HistorySize) ELSE before
         ]_vars

(* two ticks after the windows filled up, all three still hold 20 samples *)
C25_Witness ==
    /\ ret.op = "print_performance_report"
    /\ ~ret.raised
    /\ Len(pushed.net) = HistorySize + 2
    /\ Len(monitor.cpu_history) = HistorySize
    /\ Len(monitor.memory_history) = HistorySize
    /\ Len(monitor.network_history) = HistorySize

(* C26: pressing Save in the settings dialog changes nothing of the engine
   (enable_temps, temp_refresh_seconds, nor any other field of the monitor)
   and nothing of the widgets' configuration (the process table's
   num_processes and sort_by, every widget's refresh interval), whatever
   was entered: it only notifies and closes the dialog. *)
C26_SaveAppliesNothing ==
    [][ PressSave
        => /\ monitor' = monitor
           /\ monitor'.enable_temps = monitor.enable_temps
           /\ monitor'.temp_refresh_seconds = monitor.temp_refresh_seconds
           /\ app'.num_processes = app.num_processes
           /\ app'.sort_by = app.sort_by
           /\ app'.intervals = app.intervals
           /\ app' = [app EXCEPT !.screen = "main", !.notified = @ + 2]
      ]_vars

(* Save was pressed with 50 processes, an interval of 0.5 s and the
   temperature switch on; the table still shows its 10 by memory, the
   engine still has temperatures off *)
C26_Witness ==
    /\ ret = [op |-> "save-btn", interval |-> "0.5", processes |-> "50",
              temps |-> TRUE]
    /\ app.screen = "main"
    /\ app.num_processes = 10
    /\ app.sort_by = "memory"
    /\ ~monitor.enable_temps

(* C27: in _create_sparkline with at least 2 samples and a width >= 1, the
   index int(i * step) is below len(data) for every i in 0..width-1, so
   the fallback branch is never taken: every glyph of the result is one of
   the 8 bars, none is the flat glyph. *)
C27_FallbackUnreachable ==
    [][ \A width \in SparkWidths :
          ( /\ CreateSparkline(width)
            /\ Len(monitor.cpu_history) >= 2 )
          => LET data == monitor.cpu_history
                 step == float_truediv(Len(data), width)
             IN  /\ \A i \in 0..width - 1 :
                       float_int(float_mul(i, step)) < Len(data)
                 /\ \A k \in 1..Len(ret'.result) :
                       /\ ret'.result[k] # FlatGlyph
                       /\ \E b \in 1..Len(bars) : ret'.result[k] = bars[b]
      ]_vars

(* a full-bound window drawn 98 wide: the last glyph is the bar of the last
   sample *)
C27_Witness ==
    /\ ret.op = "_create_sparkline"
    /\ ret.width = 98
    /\ monitor.cpu_history = <<10, 45, 90>>
    /\ Len(ret.result) = 98
    /\ ret.result[98] = bars[8]
    /\ ret.result[1] = bars[1]

=============================================================================
